---- MODULE Spec2Model ----
(***************************************************************************)
(* Model of the git helpers git_mypush.py (mypush) and git_mypull.py       *)
(* (mypull).  The scripts shell out to git; the repository, the remote and *)
(* the operator are the environment.  Every prompt answer and every        *)
(* command outcome the code reads is drawn from a small set.               *)
(*   Spec            a whole run of mypush                                 *)
(*   SpecPushBranch  one call of push_branch, wide push outputs and answers *)
(*   SpecRecovery    one call, wide commit messages and step outcomes      *)
(*   SpecPull        a whole run of mypull                                 *)
(*   SpecTracking    create_tracking_branches on wide sets of branch names *)
(*   SpecPty         run_command_with_progress: the reader loop and the    *)
(*                   child it runs, interleaved                            *)
(***************************************************************************)
EXTENDS Integers, Sequences, FiniteSets, TLC

\* ------------------------------------------------------------------ bounds
MaxMarkers == 1       \* merge/cherry-pick/rebase markers present at once
MaxOutLen == 4        \* tokens of push output after the signature line
MaxMsgLen == 3        \* characters of a commit message
MaxPathLen == 2       \* characters of a manually typed path
MaxLfsFiles == 1      \* files listed by git lfs ls-files

\* ------------------------------------------------------- text as sequences
\* A text is a sequence of one-character strings (or of tokens).
Whitespace == {" ", "\n", "\t"}

RECURSIVE SeqsUpTo(_, _)
SeqsUpTo(S, n) ==
    IF n = 0 THEN {<<>>}
    ELSE LET shorter == SeqsUpTo(S, n - 1)
         IN  shorter \cup {Append(s, c) : s \in {t \in shorter : Len(t) = n - 1}, c \in S}

\* str.lower() on one character
LowerChar(c) ==
    CASE c = "N" -> "n"
      [] c = "Y" -> "y"
      [] c = "E" -> "e"
      [] c = "S" -> "s"
      [] OTHER -> c

\* str.lower()
Lower(s) == [i \in 1..Len(s) |-> LowerChar(s[i])]

RECURSIVE LStrip(_)
LStrip(s) == IF s # <<>> /\ Head(s) \in Whitespace THEN LStrip(Tail(s)) ELSE s

RECURSIVE RStrip(_)
RStrip(s) ==
    IF s # <<>> /\ s[Len(s)] \in Whitespace THEN RStrip(SubSeq(s, 1, Len(s) - 1)) ELSE s

\* str.strip()
Strip(s) == RStrip(LStrip(s))

\* what input() gives: a line of text, or EOFError, or KeyboardInterrupt
Text(s) == [kind |-> "text", text |-> s]
EOF == [kind |-> "eof", text |-> <<>>]
INT == [kind |-> "int", text |-> <<>>]
NoAnswer == [kind |-> "none", text |-> <<>>]    \* the prompt was not shown

\* answers an operator gives to a yes/no prompt
YesNoAnswers ==
    {Text(<<>>), Text(<<"y">>), Text(<<"n">>), Text(<<"N">>), Text(<<" ", "n">>),
     Text(<<"n", "\n">>), Text(<<"n", "o">>), EOF, INT}

\* answers to the force prompt
ForceAnswers ==
    {Text(<<>>), Text(<<"y">>), Text(<<"y", "e", "s">>), Text(<<"Y", "E", "S">>),
     Text(<<" ", "y", "e", "s">>), EOF, INT}

\* ----------------------------------------------------------- the repository
\* Commits are numbered; parent[c] = 0 for a root commit.  The repository
\* starts with commit 1 and two children of it, 2 and 3.  oversized is the set
\* of commits the remote is known to reject for a large file.
InitParent == <<0, 1, 1>>

RECURSIVE Ancestors(_, _)
\* the commits reachable from c, c included (git log c)
Ancestors(parent, c) == IF c = 0 THEN {} ELSE {c} \cup Ancestors(parent, parent[c])

\* a branch: its tip and the tip of its upstream (0: no upstream configured)
BranchConfigs ==
    { [local |-> 1, upstream |-> 0],     \* new
      [local |-> 1, upstream |-> 1],     \* up to date
      [local |-> 2, upstream |-> 1],     \* ahead
      [local |-> 1, upstream |-> 2],     \* behind
      [local |-> 2, upstream |-> 3] }    \* diverged

Markers == {"merge", "cherry-pick", "rebase"}

VARIABLES
    args,                  \* parsed command line
    repo,                  \* repository and working tree
    repo0,                 \* the repository as the run found it
    pc,                    \* position of the script
    exitCode,              \* -1 while running, else the process exit code
    log,                   \* commands of interest issued so far, in order
    should_continue_push,  \* main: result of check_interrupted_push
    loop,                  \* push_all_branches: branches, index, counters
    pb,                    \* push_branch / handle_large_file_error locals
    txt,                   \* recommit message: head message, captured, written
    force_input,           \* main: what input() gave at the force prompt
    pull,                  \* mypull: locals of main and of the sync steps
    pty                    \* run_command_with_progress: the PTY, the child, the reader

vars == <<args, repo, repo0, pc, exitCode, log, should_continue_push, loop, pb, txt,
          force_input, pull, pty>>

Cmd(c, b) == [cmd |-> c, branch |-> b, path |-> <<>>]
CmdPath(c, p) == [cmd |-> c, branch |-> 0, path |-> p]

NoLoop == [branches |-> <<>>, i |-> 0, success_count |-> 0, failed_branches |-> <<>>]

NoPb ==
    [caller |-> "none", branch |-> 0, is_new |-> FALSE, callStart |-> 0,
     returncode |-> -1, push_error |-> <<>>, consent |-> NoAnswer, matched |-> FALSE,
     group |-> <<>>, confirm |-> NoAnswer, manual |-> NoAnswer, source |-> "none",
     large_file |-> <<>>, failed |-> {}, retry_rc |-> -1, retry_stderr |-> <<>>,
     ret |-> "none"]

NoTxt ==
    [head |-> <<>>, original_commit_msg |-> <<>>, written |-> <<>>, created |-> FALSE,
     removed |-> FALSE]

\* mypull is not running; no command runs under a PTY
NoPull ==
    [choice |-> NoAnswer, fetch_ok |-> FALSE, ls_remote_ok |-> FALSE,
     remote_branches |-> <<>>, local_branches |-> <<>>, new_branches |-> <<>>,
     create_choice |-> NoAnswer, current_branch |-> <<>>, branches |-> <<>>, i |-> 0,
     local0 |-> <<>>, updated_branches |-> <<>>, failed_branches |-> <<>>, failures |-> {}]
NoPty ==
    [pc |-> "none", child |-> "none", todo |-> <<>>, wrote |-> <<>>, buf |-> <<>>,
     r |-> FALSE, output_bytes |-> <<>>, stdout |-> <<>>, opened |-> FALSE, slave_fd |-> 0,
     master_closes |-> 0, slave_closes |-> 0, raised |-> FALSE]

\* the local branches of the repository mypush runs in, in refs/heads order
BranchNames == <<"feature-x", "main">>
Branches == 1..Len(BranchNames)

NoRepo ==
    [isRepo |-> FALSE, markers |-> {}, dirty |-> FALSE, staged |-> FALSE, current |-> 0,
     local |-> [b \in Branches |-> 1], upstream |-> [b \in Branches |-> 0],
     parent |-> InitParent, detached |-> 1, attrs |-> {}, oversized |-> {}]

Repos ==
    {NoRepo} \cup
    { [isRepo |-> TRUE, markers |-> m, dirty |-> d, staged |-> FALSE, current |-> c,
       local |-> [b \in Branches |-> cfg[b].local],
       upstream |-> [b \in Branches |-> cfg[b].upstream],
       parent |-> InitParent, detached |-> 1, attrs |-> {}, oversized |-> {}] :
      m \in {x \in SUBSET Markers : Cardinality(x) <= MaxMarkers}, d \in BOOLEAN,
      c \in {0} \cup Branches,
      cfg \in [Branches -> BranchConfigs] }

Args == [default : BOOLEAN, current : BOOLEAN, force : BOOLEAN, tags : BOOLEAN]

\* the commit HEAD points to
HeadCommit(r) == IF r.current = 0 THEN r.detached ELSE r.local[r.current]

\* git rev-parse --abbrev-ref <b>@{upstream} succeeds
HasUpstream(r, b) == r.upstream[b] # 0

\* git log <b>@{upstream}..<b> --oneline: commits of b its upstream lacks
UnpushedCommits(r, b) == Ancestors(r.parent, r.local[b]) \ Ancestors(r.parent, r.upstream[b])

\* the commit a push of branch b sends (b = 0: the detached HEAD)
PushTip(r, b) == IF b = 0 THEN HeadCommit(r) ELSE r.local[b]

Exit(code) == /\ pc' = "exited"
              /\ exitCode' = code

\* -------------------------------------------------------------- mypush main
Init ==
    /\ args \in Args
    /\ repo \in Repos
    /\ repo0 = repo
    /\ pc = "check_git_repo"
    /\ exitCode = -1
    /\ log = <<>>
    /\ should_continue_push = FALSE
    /\ loop = NoLoop
    /\ pb = NoPb
    /\ txt = NoTxt
    /\ force_input = NoAnswer
    /\ pull = NoPull
    /\ pty = NoPty

\* check_git_repo(): exit 1 outside a repository
CheckGitRepo ==
    /\ pc = "check_git_repo"
    /\ IF repo.isRepo
         THEN pc' = "check_lfs_files_status" /\ UNCHANGED exitCode
         ELSE Exit(1)
    /\ UNCHANGED <<force_input, pull, pty, args, repo0, repo, log, should_continue_push, loop, pb, txt>>

\* the untrack commands for the tracked files that are gone from disk
RECURSIVE UntrackCmds(_)
UntrackCmds(files) ==
    IF files = <<>> THEN <<>>
    ELSE (IF Head(files) THEN <<>> ELSE <<Cmd("lfs_untrack", 0)>>) \o UntrackCmds(Tail(files))

\* check_lfs_files_status(): lfsOk is `git lfs --version`, files is the list
\* `git lfs ls-files -n` prints (TRUE: the file exists on disk), rootOk is
\* `git rev-parse --show-toplevel`
CheckLfsFilesStatus ==
    /\ pc = "check_lfs_files_status"
    /\ \E lfsOk \in BOOLEAN, rootOk \in BOOLEAN, files \in SeqsUpTo(BOOLEAN, MaxLfsFiles) :
         LET untracks == UntrackCmds(files)
             gitattributes_modified == untracks # <<>>
         IN  IF ~lfsOk \/ files = <<>> \/ ~rootOk \/ ~gitattributes_modified
               THEN UNCHANGED <<repo, log>>
               ELSE /\ log' = log \o untracks \o <<Cmd("add_gitattributes", 0)>>
                    /\ repo' = [repo EXCEPT !.staged = TRUE]
    /\ pc' = "check_interrupted_push"
    /\ UNCHANGED <<force_input, pull, pty, args, repo0, exitCode, should_continue_push, loop, pb, txt>>

\* check_interrupted_push(): ans is the operator's answer to the resume prompt
CheckInterruptedPush ==
    /\ pc = "check_interrupted_push"
    /\ \E ans \in YesNoAnswers :
         LET interrupted_operations == repo.markers
             current_branch == repo.current
             asks == /\ current_branch # 0
                     /\ HasUpstream(repo, current_branch)
                     /\ UnpushedCommits(repo, current_branch) # {}
         IN  IF asks /\ ans.kind = "text" /\ Strip(Lower(ans.text)) # <<"n">>
               THEN /\ should_continue_push' = TRUE
                    /\ pc' = "force"
                    /\ UNCHANGED exitCode
             ELSE IF asks /\ ans.kind # "text"
               THEN /\ should_continue_push' = FALSE
                    /\ pc' = "force"
                    /\ UNCHANGED exitCode
             ELSE IF interrupted_operations # {}
               THEN /\ Exit(1)
                    /\ UNCHANGED should_continue_push
             ELSE /\ should_continue_push' = FALSE
                  /\ pc' = "force"
                  /\ UNCHANGED exitCode
    /\ UNCHANGED <<force_input, pull, pty, args, repo0, repo, log, loop, pb, txt>>

\* git commit on HEAD: a new commit whose parent is the old HEAD commit
CommitOnHead(r) ==
    LET c == Len(r.parent) + 1
        r1 == [r EXCEPT !.parent = Append(r.parent, HeadCommit(r)), !.dirty = FALSE, !.staged = FALSE]
    IN  IF r.current = 0 THEN [r1 EXCEPT !.detached = c]
        ELSE [r1 EXCEPT !.local[r.current] = c]

\* an exception no handler catches: the interpreter prints a traceback and
\* ends the process with a nonzero status
Uncaught(code) == /\ pc' = "traceback"
                  /\ exitCode' = code

\* main, lines 380-389: the force branch; ans is what input() gives at the
\* confirmation prompt (no handler surrounds this input())
MainForce ==
    /\ pc = "force"
    /\ IF args.force
         THEN \E ans \in ForceAnswers :
                /\ force_input' = ans
                /\ IF ans.kind = "text"
                     THEN /\ IF Lower(ans.text) = <<"y", "e", "s">>
                               THEN log' = Append(log, Cmd("push_force", repo.current))
                               ELSE UNCHANGED log
                          /\ Exit(0)
                     ELSE /\ Uncaught(IF ans.kind = "eof" THEN 1 ELSE 130)
                          /\ UNCHANGED log
         ELSE /\ pc' = "tags"
              /\ UNCHANGED <<exitCode, log, force_input>>
    /\ UNCHANGED <<pull, pty, args, repo0, repo, should_continue_push, loop, pb, txt>>

\* main, lines 391-396: the tags branch
MainTags ==
    /\ pc = "tags"
    /\ IF args.tags
         THEN /\ log' = Append(log, Cmd("push_tags", 0))
              /\ Exit(0)
         ELSE /\ pc' = "gate"
              /\ UNCHANGED <<exitCode, log>>
    /\ UNCHANGED <<force_input, pull, pty, args, repo0, repo, should_continue_push, loop, pb, txt>>

\* auto_commit_changes(): the commands it issues
AutoCommitCmds == <<Cmd("add_all", 0), Cmd("commit", 0)>>

\* the working tree shows changes in `git status --porcelain`
StatusDirty(r) == r.dirty \/ r.staged

\* MainGate with the abort of a dirty tree left out
MainGate_NoAbort ==
    /\ pc = "gate"
    /\ pc' = "dispatch"
    /\ IF ~should_continue_push /\ args.default /\ StatusDirty(repo)
         THEN \E committed \in BOOLEAN :
                /\ log' = log \o <<Cmd("status", 0)>> \o AutoCommitCmds
                /\ repo' = IF committed THEN CommitOnHead(repo)
                           ELSE [repo EXCEPT !.staged = TRUE]
         ELSE /\ log' = IF should_continue_push THEN log ELSE Append(log, Cmd("status", 0))
              /\ UNCHANGED repo
    /\ UNCHANGED <<force_input, pull, pty, args, repo0, exitCode, should_continue_push, loop, pb, txt>>

\* MainGate with the status check run also when resuming
MainGate_AlwaysChecks ==
    /\ pc = "gate"
    /\ IF args.default
         THEN /\ pc' = "dispatch"
              /\ UNCHANGED exitCode
              /\ IF StatusDirty(repo)
                   THEN \E committed \in BOOLEAN :
                          /\ log' = log \o <<Cmd("status", 0)>> \o AutoCommitCmds
                          /\ repo' = IF committed THEN CommitOnHead(repo)
                                     ELSE [repo EXCEPT !.staged = TRUE]
                   ELSE /\ log' = Append(log, Cmd("status", 0))
                        /\ UNCHANGED repo
         ELSE /\ log' = Append(log, Cmd("status", 0))
              /\ UNCHANGED repo
              /\ IF StatusDirty(repo)
                   THEN Exit(1)
                   ELSE pc' = "dispatch" /\ UNCHANGED exitCode
    /\ UNCHANGED <<force_input, pull, pty, args, repo0, should_continue_push, loop, pb, txt>>

\* main, lines 398-413: the uncommitted-changes gate (auto_commit_changes
\* included; committed is whether its git commit created a commit)
MainGate ==
    /\ pc = "gate"
    /\ IF should_continue_push
         THEN /\ pc' = "dispatch"
              /\ UNCHANGED <<repo, log, exitCode>>
       ELSE IF args.default
         THEN /\ pc' = "dispatch"
              /\ UNCHANGED exitCode
              /\ IF StatusDirty(repo)
                   THEN \E committed \in BOOLEAN :
                          /\ log' = log \o <<Cmd("status", 0)>> \o AutoCommitCmds
                          /\ repo' = IF committed THEN CommitOnHead(repo)
                                     ELSE [repo EXCEPT !.staged = TRUE]
                   ELSE /\ log' = Append(log, Cmd("status", 0))
                        /\ UNCHANGED repo
       ELSE /\ log' = Append(log, Cmd("status", 0))
            /\ UNCHANGED repo
            /\ IF StatusDirty(repo)
                 THEN Exit(1)
                 ELSE pc' = "dispatch" /\ UNCHANGED exitCode
    /\ UNCHANGED <<force_input, pull, pty, args, repo0, should_continue_push, loop, pb, txt>>

\* a target of push_branch: the branch and whether it carries the ":new" suffix
Target(b, n) == [branch |-> b, is_new |-> n]

RECURSIVE BranchesFrom(_, _)
\* get_branches_to_push(): the loop over refs/heads from branch b on
BranchesFrom(r, b) ==
    IF b > Len(r.local) THEN <<>>
    ELSE (IF ~HasUpstream(r, b) THEN <<Target(b, TRUE)>>
          ELSE IF r.local[b] # r.upstream[b] THEN <<Target(b, FALSE)>>
          ELSE <<>>) \o BranchesFrom(r, b + 1)

\* get_branches_to_push()
get_branches_to_push(r) == BranchesFrom(r, 1)

\* entering push_branch(branch) from caller c
CallPushBranch(c, t) ==
    [NoPb EXCEPT !.caller = c, !.branch = t.branch, !.is_new = t.is_new, !.callStart = Len(log)]

\* main, lines 415-427: push the current branch or all branches
MainDispatch ==
    /\ pc = "dispatch"
    /\ IF args.current
         THEN /\ pb' = CallPushBranch("main", Target(repo.current, FALSE))
              /\ pc' = "push_branch"
              /\ UNCHANGED loop
         ELSE LET branches == get_branches_to_push(repo)
              IN  /\ loop' = [NoLoop EXCEPT !.branches = branches, !.i = 1]
                  /\ pc' = IF branches = <<>> THEN "main_done" ELSE "push_all_loop"
                  /\ UNCHANGED pb
    /\ UNCHANGED <<force_input, pull, pty, args, repo0, repo, exitCode, log, should_continue_push, txt>>

\* push_all_branches(), lines 351-363: the next iteration, or the summary
PushAllLoop ==
    /\ pc = "push_all_loop"
    /\ IF loop.i <= Len(loop.branches)
         THEN /\ pb' = CallPushBranch("loop", loop.branches[loop.i])
              /\ pc' = "push_branch"
         ELSE /\ pc' = "main_done"
              /\ UNCHANGED pb
    /\ UNCHANGED <<force_input, pull, pty, args, repo0, repo, exitCode, log, should_continue_push, loop, txt>>

\* ------------------------------------------------ push output and the regex
\* Push output is a sequence of tokens: "GH" is the text "GH001: Large files
\* detected", "EF" is "error: File ", "IS" is " is ", "MB" is " MB", "NL" a
\* newline, "SP" a blank and "p" any other character.
OutTokens == {"EF", "IS", "MB", "NL", "SP", "p"}
Signature == "GH"

\* every output of at most n tokens, with and without the signature line
AllOutputs(n) == {pre \o t : pre \in {<<>>, <<Signature, "NL">>}, t \in SeqsUpTo(OutTokens, n)}

\* the outputs one call of push_branch is checked on
PushOutputs == AllOutputs(MaxOutLen)

SampleOutputs ==
    { <<"p">>,
      <<Signature, "NL", "EF", "p", "IS", "p", "MB">> }

\* what run_command_with_progress returns for a push
PushResults(outs) == {[returncode |-> 0, out |-> <<>>]} \cup {[returncode |-> 1, out |-> o] : o \in outs}

\* "." of the regex matches every token of s[a..b]
NoNewline(s, a, b) == \A x \in a..b : s[x] # "NL"

\* r"error: File (.*?) is .* MB" matches s from i with the group ending before j
MatchAt(s, i, j) ==
    /\ s[i] = "EF"
    /\ j > i
    /\ s[j] = "IS"
    /\ NoNewline(s, i + 1, j - 1)
    /\ \E k \in (j + 1)..Len(s) : s[k] = "MB" /\ NoNewline(s, j + 1, k - 1)

Min(S) == CHOOSE x \in S : \A y \in S : x <= y

\* re.search(r"error: File (.*?) is .* MB", s): leftmost match, lazy group
RegexSearch(s) ==
    LET starts == {i \in 1..Len(s) : \E j \in 1..Len(s) : MatchAt(s, i, j)}
    IN  IF starts = {} THEN [matched |-> FALSE, group |-> <<>>]
        ELSE LET i == Min(starts)
                 j == Min({x \in 1..Len(s) : MatchAt(s, i, x)})
             IN  [matched |-> TRUE, group |-> SubSeq(s, i + 1, j - 1)]

\* ------------------------------------------------------------- push_branch
\* Return with the loop of push_all_branches left at the first failed branch
Return_StopsAtFailure(val) ==
    IF pb.caller = "loop"
      THEN /\ pc' = "push_all_loop"
           /\ loop' = [loop EXCEPT
                         !.i = IF val THEN @ + 1 ELSE Len(loop.branches) + 1,
                         !.success_count = IF val THEN @ + 1 ELSE @,
                         !.failed_branches = IF val THEN @ ELSE Append(@, pb.branch)]
      ELSE /\ pc' = IF pb.caller = "main" THEN "main_done" ELSE "returned"
           /\ UNCHANGED loop

\* the return of push_branch to its caller, lines 351-355 of push_all_branches
\* included
Return(val) ==
    IF pb.caller = "loop"
      THEN /\ pc' = "push_all_loop"
           /\ loop' = [loop EXCEPT
                         !.i = @ + 1,
                         !.success_count = IF val THEN @ + 1 ELSE @,
                         !.failed_branches = IF val THEN @ ELSE Append(@, pb.branch)]
      ELSE /\ pc' = IF pb.caller = "main" THEN "main_done" ELSE "returned"
           /\ UNCHANGED loop

\* a push of branch b succeeded: its upstream now is its tip (with -u, or when
\* the branch already has an upstream)
Pushed(r, b, setUpstream) ==
    IF b # 0 /\ (setUpstream \/ HasUpstream(r, b))
      THEN [r EXCEPT !.upstream[b] = r.local[b]]
      ELSE r

\* push_branch(), lines 293-314: the first push and the look at its output
PushBranch(outs) ==
    /\ pc = "push_branch"
    /\ \E result \in PushResults(outs) :
         LET error_output == result.out \o result.out    \* stderr + stdout of the PTY
         IN  /\ log' = Append(log, Cmd(IF pb.is_new THEN "push_u" ELSE "push", pb.branch))
             /\ result.returncode = 0 => PushTip(repo, pb.branch) \notin repo.oversized
             /\ IF result.returncode = 0
                  THEN /\ pb' = [pb EXCEPT !.returncode = 0, !.ret = "True"]
                       /\ repo' = Pushed(repo, pb.branch, pb.is_new)
                       /\ Return(TRUE)
                ELSE IF \E x \in 1..Len(error_output) : error_output[x] = Signature
                  THEN /\ pb' = [pb EXCEPT !.returncode = result.returncode,
                                           !.push_error = error_output]
                       /\ repo' = [repo EXCEPT !.oversized = @ \cup {PushTip(repo, pb.branch)}]
                       /\ pc' = "hlfe_consent"
                       /\ UNCHANGED loop
                  ELSE /\ pb' = [pb EXCEPT !.returncode = result.returncode, !.ret = "False"]
                       /\ Return(FALSE)
                       /\ UNCHANGED repo
    /\ UNCHANGED <<force_input, pull, pty, args, repo0, exitCode, should_continue_push, txt>>

\* ------------------------------------------------- handle_large_file_error
\* git reset --soft HEAD~1
ResetSoft(r) ==
    LET to == r.parent[HeadCommit(r)]
        r1 == [r EXCEPT !.staged = TRUE]
    IN  IF r.current = 0 THEN [r1 EXCEPT !.detached = to]
        ELSE [r1 EXCEPT !.local[r.current] = to]

\* HlfeConsent with the soft reset done before the answer is looked at
HlfeConsent_ResetsFirst(answers) ==
    /\ pc = "hlfe_consent"
    /\ \E input_text \in answers :
         IF input_text.kind = "text" /\ Strip(Lower(input_text.text)) # <<"n">>
           THEN /\ pb' = [pb EXCEPT !.consent = input_text]
                /\ pc' = "hlfe_identify"
                /\ UNCHANGED loop
           ELSE /\ pb' = [pb EXCEPT !.consent = input_text, !.ret = "False"]
                /\ Return(FALSE)
    /\ log' = Append(log, Cmd("reset_soft", 0))
    /\ repo' = IF repo.parent[HeadCommit(repo)] # 0 THEN ResetSoft(repo) ELSE repo
    /\ UNCHANGED <<force_input, pull, pty, args, repo0, exitCode, should_continue_push, txt>>

\* lines 223-230: the consent prompt
HlfeConsent(answers) ==
    /\ pc = "hlfe_consent"
    /\ \E input_text \in answers :
         IF input_text.kind = "text" /\ Strip(Lower(input_text.text)) # <<"n">>
           THEN /\ pb' = [pb EXCEPT !.consent = input_text]
                /\ pc' = "hlfe_identify"
                /\ UNCHANGED loop
           ELSE /\ pb' = [pb EXCEPT !.consent = input_text, !.ret = "False"]
                /\ Return(FALSE)
    /\ UNCHANGED <<force_input, pull, pty, args, repo0, repo, exitCode, log, should_continue_push, txt>>

\* HlfeIdentify with the soft reset of line 263 done before the path is confirmed
HlfeIdentify_ResetsFirst(answers) ==
    /\ pc = "hlfe_identify"
    /\ LET match == RegexSearch(pb.push_error)
           found == Strip(match.group)
       IN  IF match.matched
             THEN \E confirm \in answers :
                    LET pb1 == [pb EXCEPT !.matched = TRUE, !.group = match.group,
                                          !.confirm = confirm]
                    IN  IF confirm.kind # "text"
                          THEN /\ pb' = [pb1 EXCEPT !.ret = "False"]
                               /\ Return(FALSE)
                        ELSE IF Strip(Lower(confirm.text)) = <<"n">> \/ found = <<>>
                          THEN /\ pb' = pb1
                               /\ pc' = "hlfe_manual"
                               /\ UNCHANGED loop
                          ELSE /\ pb' = [pb1 EXCEPT !.large_file = found, !.source = "regex"]
                               /\ pc' = "hlfe_rewrite"
                               /\ UNCHANGED loop
             ELSE /\ pc' = "hlfe_manual"
                  /\ UNCHANGED <<pb, loop>>
    /\ log' = Append(log, Cmd("reset_soft", 0))
    /\ repo' = IF repo.parent[HeadCommit(repo)] # 0 THEN ResetSoft(repo) ELSE repo
    /\ UNCHANGED <<force_input, pull, pty, args, repo0, exitCode, should_continue_push, txt>>

\* lines 232-245: the regex and the confirmation of the path it found
HlfeIdentify(answers) ==
    /\ pc = "hlfe_identify"
    /\ LET match == RegexSearch(pb.push_error)
           found == Strip(match.group)
       IN  IF match.matched
             THEN \E confirm \in answers :
                    LET pb1 == [pb EXCEPT !.matched = TRUE, !.group = match.group,
                                          !.confirm = confirm]
                    IN  IF confirm.kind # "text"
                          THEN /\ pb' = [pb1 EXCEPT !.ret = "False"]
                               /\ Return(FALSE)
                        ELSE IF Strip(Lower(confirm.text)) = <<"n">> \/ found = <<>>
                          THEN /\ pb' = pb1
                               /\ pc' = "hlfe_manual"
                               /\ UNCHANGED loop
                          ELSE /\ pb' = [pb1 EXCEPT !.large_file = found, !.source = "regex"]
                               /\ pc' = "hlfe_rewrite"
                               /\ UNCHANGED loop
             ELSE /\ pc' = "hlfe_manual"
                  /\ UNCHANGED <<pb, loop>>
    /\ UNCHANGED <<force_input, pull, pty, args, repo0, repo, exitCode, log, should_continue_push, txt>>

\* paths an operator types at the manual prompt
ManualAnswers == {Text(s) : s \in SeqsUpTo({"p", " "}, MaxPathLen)} \cup {EOF, INT}
SampleManualAnswers == {Text(<<"p">>), Text(<<>>)}
SampleAnswers == {Text(<<>>), Text(<<"n">>), EOF}

\* HlfeManual without the empty-path check
HlfeManual_NoEmptyCheck(answers) ==
    /\ pc = "hlfe_manual"
    /\ \E typed \in answers :
         IF typed.kind # "text"
           THEN /\ pb' = [pb EXCEPT !.manual = typed, !.ret = "False"]
                /\ Return(FALSE)
           ELSE /\ pb' = [pb EXCEPT !.manual = typed, !.large_file = Strip(typed.text),
                                    !.source = "manual"]
                /\ pc' = "hlfe_rewrite"
                /\ UNCHANGED loop
    /\ UNCHANGED <<force_input, pull, pty, args, repo0, repo, exitCode, log, should_continue_push, txt>>

\* lines 247-256: the manual path prompt and the empty-path check
HlfeManual(answers) ==
    /\ pc = "hlfe_manual"
    /\ \E typed \in answers :
         LET large_file == Strip(typed.text)
         IN  IF typed.kind # "text" \/ large_file = <<>>
               THEN /\ pb' = [pb EXCEPT !.manual = typed, !.ret = "False"]
                    /\ Return(FALSE)
               ELSE /\ pb' = [pb EXCEPT !.manual = typed, !.large_file = large_file,
                                        !.source = "manual"]
                    /\ pc' = "hlfe_rewrite"
                    /\ UNCHANGED loop
    /\ UNCHANGED <<force_input, pull, pty, args, repo0, repo, exitCode, log, should_continue_push, txt>>

\* the exit statuses of the commands of lines 263-269 (TRUE: status 0)
StepOutcomes == [reset : BOOLEAN, install : BOOLEAN, track : BOOLEAN, add : BOOLEAN]

SampleStepOutcomes ==
    { [reset |-> TRUE, install |-> TRUE, track |-> TRUE, add |-> TRUE],
      [reset |-> TRUE, install |-> FALSE, track |-> FALSE, add |-> FALSE] }

\* `git log -1 --pretty=%B` prints the message and a newline
GitLogB(m) == m \o <<"\n">>

MsgChars == {"a", " ", "\n", "\""}
AllMessages(n) == SeqsUpTo(MsgChars, n)
\* every command of lines 263-269 exits with status 0
StepsSucceed == {[reset |-> TRUE, install |-> TRUE, track |-> TRUE, add |-> TRUE]}

SampleMessages == {<<"a">>}
\* the messages the recovery is checked on
RecoveryMessages == AllMessages(MaxMsgLen)

\* lines 258-269: capture the message, soft reset, lfs install, track, add
HlfeRewrite(msgs, outcomes) ==
    /\ pc = "hlfe_rewrite"
    /\ \E m \in msgs, ok \in outcomes :
         /\ LET resetOk == ok.reset /\ repo.parent[HeadCommit(repo)] # 0   \* HEAD~1 exists
                r1 == IF resetOk THEN ResetSoft(repo) ELSE repo
                r2 == IF ok.track
                        THEN [r1 EXCEPT !.attrs = @ \cup {pb.large_file}, !.dirty = TRUE]
                        ELSE r1
                r3 == IF ok.add THEN [r2 EXCEPT !.staged = TRUE] ELSE r2
            IN  /\ repo' = r3
                /\ pb' = [pb EXCEPT !.failed = {st \in DOMAIN ok : ~ok[st]} \cup
                                               (IF resetOk THEN {} ELSE {"reset"})]
         /\ txt' = [NoTxt EXCEPT !.head = m, !.original_commit_msg = Strip(GitLogB(m))]
    /\ log' = log \o <<Cmd("reset_soft", 0), Cmd("lfs_install", 0),
                      CmdPath("lfs_track", pb.large_file),
                      CmdPath("add_large", pb.large_file)>>
    /\ pc' = "hlfe_recommit"
    /\ UNCHANGED <<force_input, pull, pty, args, repo0, exitCode, should_continue_push, loop>>

LfsMarker == <<"\n", "\n", "[LFS Added]">>

\* git commit -F on HEAD: the new commit carries the large file as a plain
\* blob unless the file was tracked and added, and it has its parent's history
Recommit(r, tracked) ==
    LET r1 == CommitOnHead(r)
    IN  IF HeadCommit(r) \in r.oversized \/ ~tracked
          THEN [r1 EXCEPT !.oversized = @ \cup {HeadCommit(r1)}]
          ELSE r1

\* the ways `git commit -F` of line 277 ends: status 0, a nonzero status, or
\* Ctrl-C while run_command waits for it (KeyboardInterrupt out of line 277)
RecommitOutcomes == {"committed", "failed", "interrupted"}

\* lines 271-278: write the message file, git commit -F, remove the file.
\* Nothing catches an interrupt of the commit: it leaves the function at line
\* 277, before os.remove, and the script with a traceback.
HlfeRecommit ==
    /\ pc = "hlfe_recommit"
    /\ \E outcome \in RecommitOutcomes :
         /\ repo' = IF outcome = "committed"
                      THEN Recommit(repo, {"track", "add"} \cap pb.failed = {})
                      ELSE repo
         /\ pb' = IF outcome = "failed" THEN [pb EXCEPT !.failed = @ \cup {"commit"}] ELSE pb
         /\ txt' = [txt EXCEPT !.written = txt.original_commit_msg \o LfsMarker,
                               !.created = TRUE,
                               !.removed = (outcome # "interrupted")]
         /\ IF outcome = "interrupted"
              THEN Uncaught(130)
              ELSE pc' = "hlfe_retry" /\ UNCHANGED exitCode
    /\ log' = Append(log, Cmd("commit_F", 0))
    /\ UNCHANGED <<force_input, pull, pty, args, repo0, should_continue_push, loop>>

\* HlfeRetry that enters the recovery again on a second size rejection
HlfeRetry_Loops(outs) ==
    /\ pc = "hlfe_retry"
    /\ \E result \in PushResults(outs) :
         /\ result.returncode = 0 => PushTip(repo, pb.branch) \notin repo.oversized
         /\ IF result.returncode = 0
              THEN /\ pb' = [pb EXCEPT !.retry_rc = 0, !.ret = "True"]
                   /\ repo' = Pushed(repo, pb.branch, FALSE)
                   /\ Return(TRUE)
            ELSE IF \E x \in 1..Len(result.out) : result.out[x] = Signature
              THEN /\ pb' = [pb EXCEPT !.push_error = result.out \o result.out]
                   /\ pc' = "hlfe_consent"
                   /\ UNCHANGED <<repo, loop>>
              ELSE /\ pb' = [pb EXCEPT !.retry_rc = result.returncode,
                                        !.retry_stderr = result.out, !.ret = "False"]
                   /\ UNCHANGED repo
                   /\ Return(FALSE)
    /\ log' = Append(log, Cmd("push", pb.branch))
    /\ UNCHANGED <<force_input, pull, pty, args, repo0, exitCode, should_continue_push, txt>>

\* lines 280-289: the one retry of the push
HlfeRetry(outs) ==
    /\ pc = "hlfe_retry"
    /\ \E result \in PushResults(outs) :
         /\ result.returncode = 0 => PushTip(repo, pb.branch) \notin repo.oversized
         /\ IF result.returncode = 0
              THEN /\ pb' = [pb EXCEPT !.retry_rc = 0, !.ret = "True"]
                   /\ repo' = Pushed(repo, pb.branch, FALSE)
                   /\ Return(TRUE)
              ELSE /\ pb' = [pb EXCEPT !.retry_rc = result.returncode,
                                        !.retry_stderr = result.out, !.ret = "False"]
                   /\ UNCHANGED repo
                   /\ Return(FALSE)
    /\ log' = Append(log, Cmd("push", pb.branch))
    /\ UNCHANGED <<force_input, pull, pty, args, repo0, exitCode, should_continue_push, txt>>

\* main, line 429: the end of main
MainDone ==
    /\ pc = "main_done"
    /\ Exit(0)
    /\ UNCHANGED <<force_input, pull, pty, args, repo0, repo, log, should_continue_push, loop, pb, txt>>

Next ==
    \/ CheckGitRepo
    \/ CheckLfsFilesStatus
    \/ CheckInterruptedPush
    \/ MainForce
    \/ MainTags
    \/ MainGate
    \/ MainDispatch
    \/ PushAllLoop
    \/ PushBranch(SampleOutputs)
    \/ HlfeConsent(SampleAnswers)
    \/ HlfeIdentify(SampleAnswers)
    \/ HlfeManual(SampleManualAnswers)
    \/ HlfeRewrite(SampleMessages, SampleStepOutcomes)
    \/ HlfeRecommit
    \/ HlfeRetry(SampleOutputs)
    \/ MainDone

Spec == Init /\ [][Next]_vars

\* ----------------------------------------------- one call of push_branch
\* A repository with a new branch, which is checked out, and a branch ahead
\* of its upstream: the call pushes the checked-out branch or the other one.
PushBranchRepos ==
    { [isRepo |-> TRUE, markers |-> {}, dirty |-> FALSE, staged |-> FALSE, current |-> 1,
       local |-> <<2, 3>>, upstream |-> <<0, 1>>,
       parent |-> InitParent, detached |-> 1, attrs |-> {}, oversized |-> {}] }

InitPushBranch ==
    /\ args = [default |-> FALSE, current |-> FALSE, force |-> FALSE, tags |-> FALSE]
    /\ repo \in PushBranchRepos
    /\ repo0 = repo
    /\ pc = "push_branch"
    /\ exitCode = -1
    /\ log = <<>>
    /\ should_continue_push = FALSE
    /\ loop = NoLoop
    /\ \E t \in {Target(1, TRUE), Target(2, FALSE)} : pb = CallPushBranch("top", t)
    /\ txt = NoTxt
    /\ force_input = NoAnswer
    /\ pull = NoPull
    /\ pty = NoPty

\* push_branch on every push output and every operator answer; the outcomes
\* of the recovery steps are those of SpecRecovery
NextPushBranch ==
    \/ PushBranch(PushOutputs)
    \/ HlfeConsent(YesNoAnswers)
    \/ HlfeIdentify(YesNoAnswers)
    \/ HlfeManual(ManualAnswers)
    \/ HlfeRewrite(SampleMessages, StepsSucceed)
    \/ HlfeRecommit
    \/ HlfeRetry(SampleOutputs)

SpecPushBranch == InitPushBranch /\ [][NextPushBranch]_vars

\* push_branch on every commit message and every outcome of the recovery steps
NextRecovery ==
    \/ PushBranch(SampleOutputs)
    \/ HlfeConsent(SampleAnswers)
    \/ HlfeIdentify(SampleAnswers)
    \/ HlfeManual(SampleManualAnswers)
    \/ HlfeRewrite(RecoveryMessages, StepOutcomes)
    \/ HlfeRecommit
    \/ HlfeRetry(SampleOutputs)

SpecRecovery == InitPushBranch /\ [][NextRecovery]_vars

\* ===================================================== git_mypull.py (mypull)
\* The same variables carry a run of mypull: args are its flags, repo the
\* repository it syncs, log the git commands it issued, pull its locals.
\*
\* A branch name is a sequence of tokens: "a" and "b" are letters, "/" is a
\* slash and "refs/heads/" is that text inside a name (the branch
\* "a/refs/heads/a" is the ref refs/heads/a/refs/heads/a).  NameTokens are
\* the tokens of the names drawn for the heads of the remote.
NameTokens == {"a", "/", "refs/heads/"}

\* git check-ref-format: not empty, no leading or trailing slash, no "//"
ValidName(n) ==
    /\ n # <<>>
    /\ n[1] # "/"
    /\ n[Len(n)] \notin {"/", "refs/heads/"}
    /\ \A i \in 1..(Len(n) - 1) : n[i] \in {"/", "refs/heads/"} => n[i + 1] # "/"

AllNames(k) == {n \in SeqsUpTo(NameTokens, k) : ValidName(n)}
SampleNames == {<<"a">>, <<"b">>}

\* the order of Python's str comparison on these tokens ("/" < "a" < "b" < "r")
NameRank(t) == CASE t = "/" -> 1 [] t = "a" -> 2 [] t = "b" -> 3 [] OTHER -> 4

RECURSIVE NameLess(_, _)
NameLess(x, y) ==
    IF y = <<>> THEN FALSE
    ELSE IF x = <<>> THEN TRUE
    ELSE IF Head(x) = Head(y) THEN NameLess(Tail(x), Tail(y))
    ELSE NameRank(Head(x)) < NameRank(Head(y))

RECURSIVE Insert(_, _)
Insert(x, s) ==
    IF s = <<>> THEN <<x>>
    ELSE IF NameLess(x, Head(s)) THEN <<x>> \o s
    ELSE <<Head(s)>> \o Insert(x, Tail(s))

\* sorted(list)
RECURSIVE Sorted(_)
Sorted(s) == IF s = <<>> THEN <<>> ELSE Insert(Head(s), Sorted(Tail(s)))

\* the elements of a set, one per output line, in the order git prints them
RECURSIVE LinesOf(_)
LinesOf(S) ==
    IF S = {} THEN <<>>
    ELSE LET x == CHOOSE y \in S : \A z \in S : z = y \/ NameLess(y, z)
         IN  <<x>> \o LinesOf(S \ {x})

\* a line of `git ls-remote --heads origin` for the head named n
LsRemoteLine(n) == <<"sha", "\t", "refs/heads/">> \o n

\* the index of the first "refs/heads/" of s, or Len(s) + 1
FirstRefsHeads(s) ==
    IF \E i \in 1..Len(s) : s[i] = "refs/heads/"
      THEN Min({i \in 1..Len(s) : s[i] = "refs/heads/"})
      ELSE Len(s) + 1

\* line.split('refs/heads/')[1]
SplitRefsHeads1(line) ==
    LET rest == SubSeq(line, FirstRefsHeads(line) + 1, Len(line))
    IN  SubSeq(rest, 1, FirstRefsHeads(rest) - 1)

\* get_remote_branches(): heads is the set of branch names the remote has,
\* ok is whether git ls-remote succeeded
get_remote_branches(heads, ok) ==
    IF ~ok THEN <<>>
    ELSE LET lines == LinesOf(heads)
         IN  Sorted([i \in 1..Len(lines) |-> SplitRefsHeads1(LsRemoteLine(lines[i]))])

\* get_local_branches(): the names `git branch --format` prints, sorted
get_local_branches(r) == Sorted(LinesOf(DOMAIN r.local))

InSeq(x, s) == \E i \in 1..Len(s) : s[i] = x

\* [b for b in s if b not in t]
RECURSIVE NotIn(_, _)
NotIn(s, t) ==
    IF s = <<>> THEN <<>>
    ELSE (IF InSeq(Head(s), t) THEN <<>> ELSE <<Head(s)>>) \o NotIn(Tail(s), t)

\* a branch of the mypull repository: its local tip, its tip at the remote
\* (0: absent) and whether branch.<name>.remote/merge are configured
PullBranchConfigs ==
    { [local |-> 0, remote |-> 1, tracked |-> FALSE],    \* new at the remote
      [local |-> 1, remote |-> 1, tracked |-> TRUE],     \* up to date
      [local |-> 1, remote |-> 2, tracked |-> TRUE],     \* behind
      [local |-> 2, remote |-> 1, tracked |-> TRUE],     \* ahead
      [local |-> 2, remote |-> 3, tracked |-> TRUE],     \* diverged
      [local |-> 1, remote |-> 0, tracked |-> FALSE],    \* local only
      [local |-> 1, remote |-> 0, tracked |-> TRUE] }    \* upstream deleted

\* local, upstream (refs/remotes/origin/*) and remote (the heads of origin)
\* map the names that exist to commits; before the fetch the remote-tracking
\* refs are stale
PullRepo(names, cfg, cur, d, isrepo) ==
    [isRepo |-> isrepo, dirty |-> d, staged |-> FALSE, current |-> cur,
     local |-> [n \in {x \in names : cfg[x].local # 0} |-> cfg[n].local],
     remote |-> [n \in {x \in names : cfg[x].remote # 0} |-> cfg[n].remote],
     upstream |-> [n \in {x \in names : cfg[x].tracked} |-> 1],
     tracked |-> {x \in names : cfg[x].tracked},
     parent |-> InitParent]

NoPullRepo == PullRepo({}, <<>>, <<>>, TRUE, FALSE)

\* current is <<>> on a detached HEAD
PullRepos ==
    {NoPullRepo} \cup
    { PullRepo(SampleNames, cfg, cur, d, TRUE) :
        cfg \in [SampleNames -> PullBranchConfigs], cur \in SampleNames \cup {<<>>},
        d \in BOOLEAN }

PullArgs == [force : BOOLEAN, no_lfs : BOOLEAN]

InitPull ==
    /\ args \in PullArgs
    /\ repo \in {r \in PullRepos : r.current = <<>> \/ r.current \in DOMAIN r.local}
    /\ repo0 = repo
    /\ pc = "pull_check_git_repo"
    /\ exitCode = -1
    /\ log = <<>>
    /\ should_continue_push = FALSE
    /\ loop = NoLoop
    /\ pb = NoPb
    /\ txt = NoTxt
    /\ force_input = NoAnswer
    /\ pull = NoPull
    /\ pty = NoPty

PushVars == <<should_continue_push, loop, pb, txt, force_input, pty>>

\* check_git_repo(), lines 36-41
PullCheckGitRepo ==
    /\ pc = "pull_check_git_repo"
    /\ IF repo.isRepo
         THEN pc' = "pull_check_working_tree" /\ UNCHANGED exitCode
         ELSE Exit(1)
    /\ UNCHANGED <<args, repo0, repo, log, pull, PushVars>>

\* answers an operator gives to the dirty-tree prompt of mypull
GateAnswers ==
    {Text(<<>>), Text(<<"y">>), Text(<<"Y">>), Text(<<" ", "y">>), Text(<<"y", "e", "s">>),
     Text(<<"n">>), EOF, INT}

\* CheckWorkingTree with a prompt whose default is yes
CheckWorkingTree_DefaultYes(answers) ==
    /\ pc = "pull_check_working_tree"
    /\ IF args.force
         THEN /\ pc' = "pull_lfs"
              /\ UNCHANGED <<exitCode, log, pull>>
         ELSE /\ log' = Append(log, Cmd("diff_index", 0))
              /\ IF repo.dirty
                   THEN \E choice \in answers :
                          /\ pull' = [pull EXCEPT !.choice = choice]
                          /\ IF choice.kind = "text" /\ Strip(Lower(choice.text)) # <<"n">>
                               THEN pc' = "pull_lfs" /\ UNCHANGED exitCode
                               ELSE Exit(1)
                   ELSE /\ pc' = "pull_lfs"
                        /\ UNCHANGED <<exitCode, pull>>
    /\ UNCHANGED <<args, repo0, repo, PushVars>>

\* check_working_tree() and main lines 323-325: the dirty-tree gate
CheckWorkingTree(answers) ==
    /\ pc = "pull_check_working_tree"
    /\ IF args.force
         THEN /\ pc' = "pull_lfs"
              /\ UNCHANGED <<exitCode, log, pull>>
         ELSE /\ log' = Append(log, Cmd("diff_index", 0))
              /\ IF repo.dirty
                   THEN \E choice \in answers :
                          /\ pull' = [pull EXCEPT !.choice = choice]
                          /\ IF choice.kind = "text" /\ Strip(Lower(choice.text)) = <<"y">>
                               THEN pc' = "pull_lfs" /\ UNCHANGED exitCode
                               ELSE Exit(1)
                   ELSE /\ pc' = "pull_lfs"
                        /\ UNCHANGED <<exitCode, pull>>
    /\ UNCHANGED <<args, repo0, repo, PushVars>>

\* main lines 327-330 and check_lfs_files_status(), lines 66-109
PullCheckLfsFilesStatus ==
    /\ pc = "pull_lfs"
    /\ IF args.no_lfs
         THEN UNCHANGED <<repo, log>>
         ELSE \E lfsOk \in BOOLEAN, rootOk \in BOOLEAN, files \in SeqsUpTo(BOOLEAN, MaxLfsFiles) :
                LET untracks == UntrackCmds(files)
                    gitattributes_modified == untracks # <<>>
                IN  IF ~lfsOk \/ files = <<>> \/ ~rootOk \/ ~gitattributes_modified
                      THEN UNCHANGED <<repo, log>>
                      ELSE /\ log' = log \o untracks \o <<Cmd("add_gitattributes", 0)>>
                           /\ repo' = [repo EXCEPT !.staged = TRUE]
    /\ pc' = "pull_fetch"
    /\ UNCHANGED <<args, repo0, exitCode, pull, PushVars>>

\* main lines 337-341: git fetch origin --prune; a fetch that succeeds makes
\* the remote-tracking refs equal to the heads of the remote
PullFetch ==
    /\ pc = "pull_fetch"
    /\ log' = Append(log, Cmd("fetch", 0))
    /\ \E ok \in BOOLEAN :
         IF ok
           THEN /\ repo' = [repo EXCEPT !.upstream = repo.remote]
                /\ pull' = [pull EXCEPT !.fetch_ok = TRUE]
                /\ pc' = "pull_tracking"
                /\ UNCHANGED exitCode
           ELSE /\ Exit(1)
                /\ UNCHANGED <<repo, pull>>
    /\ UNCHANGED <<args, repo0, PushVars>>

\* the branch_track commands for the branches of s
TrackCmds(s) == [i \in 1..Len(s) |-> Cmd("branch_track", s[i])]

\* git branch --track 'n' 'origin/n' for the names of S that can be created
Track(r, S) ==
    LET made == {n \in S : n \in DOMAIN r.upstream /\ n \notin DOMAIN r.local}
    IN  [r EXCEPT !.local = [n \in DOMAIN r.local \cup made |->
                                IF n \in made THEN r.upstream[n] ELSE r.local[n]],
                  !.tracked = @ \cup made]

\* create_tracking_branches(), lines 131-159: lsOk is whether git ls-remote
\* succeeded, okSet the names whose git branch --track is let to succeed
CreateTrackingBranches(answers) ==
    /\ pc = "pull_tracking"
    /\ \E lsOk \in BOOLEAN :
         LET remote_branches == get_remote_branches(DOMAIN repo.remote, lsOk)
             local_branches == get_local_branches(repo)
             new_branches == NotIn(remote_branches, local_branches)
             pull1 == [pull EXCEPT !.ls_remote_ok = lsOk,
                                   !.remote_branches = remote_branches,
                                   !.local_branches = local_branches,
                                   !.new_branches = new_branches]
         IN  IF new_branches = <<>>
               THEN /\ pull' = pull1
                    /\ log' = Append(log, Cmd("ls_remote", 0))
                    /\ UNCHANGED repo
               ELSE \E choice \in answers :
                      IF choice.kind = "text" /\ Strip(Lower(choice.text)) # <<"n">>
                        THEN \E okSet \in SUBSET {new_branches[i] : i \in 1..Len(new_branches)} :
                               /\ repo' = Track(repo, okSet)
                               /\ log' = log \o <<Cmd("ls_remote", 0)>> \o TrackCmds(new_branches)
                               /\ pull' = [pull1 EXCEPT
                                             !.create_choice = choice,
                                             !.failures = IF DOMAIN repo'.local = DOMAIN repo.local \cup
                                                               {new_branches[i] : i \in 1..Len(new_branches)}
                                                          THEN @ ELSE @ \cup {"tracking"}]
                        ELSE /\ pull' = [pull1 EXCEPT !.create_choice = choice]
                             /\ log' = Append(log, Cmd("ls_remote", 0))
                             /\ UNCHANGED repo
    /\ pc' = "pull_tags"
    /\ UNCHANGED <<args, repo0, exitCode, PushVars>>

\* SyncTags that gives up the run when the tag fetch fails
SyncTags_Aborts ==
    /\ pc = "pull_tags"
    /\ log' = Append(log, Cmd("fetch_tags", 0))
    /\ \E ok \in BOOLEAN :
         IF ok THEN /\ pc' = "pull_sync"
                    /\ UNCHANGED <<pull, exitCode>>
         ELSE /\ pull' = [pull EXCEPT !.failures = @ \cup {"tags"}]
              /\ Exit(1)
    /\ UNCHANGED <<args, repo0, repo, PushVars>>

\* sync_tags(), lines 234-262
SyncTags ==
    /\ pc = "pull_tags"
    /\ log' = Append(log, Cmd("fetch_tags", 0))
    /\ \E ok \in BOOLEAN :
         pull' = IF ok THEN pull ELSE [pull EXCEPT !.failures = @ \cup {"tags"}]
    /\ pc' = "pull_sync"
    /\ UNCHANGED <<args, repo0, repo, exitCode, PushVars>>

\* sync_all_branches(), lines 163-168: the current branch and the branch list
SyncAllBranches ==
    /\ pc = "pull_sync"
    /\ pull' = [pull EXCEPT !.current_branch = repo.current,
                            !.branches = get_local_branches(repo),
                            !.i = 1,
                            !.local0 = repo.local]
    /\ log' = Append(log, Cmd("show_current", 0))
    /\ pc' = "pull_sync_loop"
    /\ UNCHANGED <<args, repo0, repo, exitCode, PushVars>>

\* git merge-base --is-ancestor b origin/b
IsAncestor(r, b) == r.local[b] \in Ancestors(r.parent, r.upstream[b])

\* git pull --ff-only on branch b can succeed: nothing to merge, or a fast
\* forward
CanFastForward(r, b) == r.upstream[b] \in Ancestors(r.parent, r.local[b]) \/ IsAncestor(r, b)

\* git pull --ff-only on the current branch b succeeded
PullFfOnly(r, b) == IF IsAncestor(r, b) THEN [r EXCEPT !.local[b] = r.upstream[b]] ELSE r

\* SyncBranch without the test of line 200: the current branch is moved with
\* git update-ref like any other
SyncBranch_UpdateRefCurrent ==
    /\ pc = "pull_sync_loop"
    /\ pull.i <= Len(pull.branches)
    /\ LET branch == pull.branches[pull.i]
           next == [pull EXCEPT !.i = @ + 1]
       IN  IF \/ branch \notin repo.tracked
              \/ branch \notin DOMAIN repo.upstream
              \/ repo.local[branch] = repo.upstream[branch]
             THEN /\ pull' = next
                  /\ UNCHANGED <<repo, log>>
           ELSE IF IsAncestor(repo, branch)
             THEN \E ok \in BOOLEAN :
                    /\ log' = log \o <<Cmd("merge_base", branch), Cmd("update_ref", branch)>>
                    /\ IF ok
                         THEN /\ repo' = [repo EXCEPT !.local[branch] = repo.upstream[branch]]
                              /\ pull' = [next EXCEPT !.updated_branches = Append(@, branch)]
                         ELSE /\ pull' = [next EXCEPT !.failed_branches = Append(@, branch),
                                                      !.failures = @ \cup {"sync"}]
                              /\ UNCHANGED repo
           ELSE /\ log' = Append(log, Cmd("merge_base", branch))
                /\ pull' = [next EXCEPT !.failed_branches = Append(@, branch)]
                /\ UNCHANGED repo
    /\ UNCHANGED <<args, repo0, pc, exitCode, PushVars>>

\* sync_all_branches(), lines 170-218: one iteration of the loop; ok is the
\* exit status of git pull --ff-only or of git update-ref
SyncBranch ==
    /\ pc = "pull_sync_loop"
    /\ pull.i <= Len(pull.branches)
    /\ LET branch == pull.branches[pull.i]
           next == [pull EXCEPT !.i = @ + 1]
       IN  IF \/ branch \notin repo.tracked
              \/ branch \notin DOMAIN repo.upstream
              \/ repo.local[branch] = repo.upstream[branch]
             THEN /\ pull' = next
                  /\ UNCHANGED <<repo, log>>
           ELSE IF branch = pull.current_branch
             THEN /\ log' = Append(log, Cmd("pull_ff_only", branch))
                  /\ \E ok \in BOOLEAN :
                       /\ ok => CanFastForward(repo, branch)
                       /\ IF ok
                            THEN /\ repo' = PullFfOnly(repo, branch)
                                 /\ pull' = [next EXCEPT !.updated_branches = Append(@, branch)]
                            ELSE /\ pull' = [next EXCEPT !.failed_branches = Append(@, branch),
                                                         !.failures = @ \cup {"sync"}]
                                 /\ UNCHANGED repo
           ELSE IF IsAncestor(repo, branch)
             THEN \E ok \in BOOLEAN :
                    /\ log' = log \o <<Cmd("merge_base", branch), Cmd("update_ref", branch)>>
                    /\ IF ok
                         THEN /\ repo' = [repo EXCEPT !.local[branch] = repo.upstream[branch]]
                              /\ pull' = [next EXCEPT !.updated_branches = Append(@, branch)]
                         ELSE /\ pull' = [next EXCEPT !.failed_branches = Append(@, branch),
                                                      !.failures = @ \cup {"sync"}]
                              /\ UNCHANGED repo
           ELSE /\ log' = Append(log, Cmd("merge_base", branch))
                /\ pull' = [next EXCEPT !.failed_branches = Append(@, branch)]
                /\ UNCHANGED repo
    /\ UNCHANGED <<args, repo0, pc, exitCode, PushVars>>

\* sync_all_branches(), lines 220-232: the report after the loop
SyncReport ==
    /\ pc = "pull_sync_loop"
    /\ pull.i > Len(pull.branches)
    /\ pc' = "pull_cleanup"
    /\ UNCHANGED <<args, repo0, repo, exitCode, log, pull, PushVars>>

\* cleanup_remote_refs(), lines 264-283: dryOk and pruneOk are the exit
\* statuses of the two prune commands, stale whether "would prune" is printed
CleanupRemoteRefs ==
    /\ pc = "pull_cleanup"
    /\ \E dryOk \in BOOLEAN, stale \in BOOLEAN, pruneOk \in BOOLEAN :
         IF ~dryOk
           THEN /\ log' = Append(log, Cmd("prune_dry_run", 0))
                /\ pull' = [pull EXCEPT !.failures = @ \cup {"prune"}]
         ELSE IF stale
           THEN /\ log' = log \o <<Cmd("prune_dry_run", 0), Cmd("prune", 0)>>
                /\ pull' = IF pruneOk THEN pull ELSE [pull EXCEPT !.failures = @ \cup {"prune"}]
           ELSE /\ pruneOk
                /\ log' = Append(log, Cmd("prune_dry_run", 0))
                /\ UNCHANGED pull
    /\ pc' = "pull_summary"
    /\ UNCHANGED <<args, repo0, repo, exitCode, PushVars>>

\* show_summary() and main lines 355-363: the summary, then main returns
ShowSummary ==
    /\ pc = "pull_summary"
    /\ log' = Append(log, Cmd("summary", 0))
    /\ Exit(0)
    /\ UNCHANGED <<args, repo0, repo, pull, PushVars>>

NextPull ==
    \/ PullCheckGitRepo
    \/ CheckWorkingTree(GateAnswers)
    \/ PullCheckLfsFilesStatus
    \/ PullFetch
    \/ CreateTrackingBranches(SampleAnswers)
    \/ SyncTags
    \/ SyncAllBranches
    \/ SyncBranch
    \/ SyncReport
    \/ CleanupRemoteRefs
    \/ ShowSummary

SpecPull == InitPull /\ [][NextPull]_vars

\* ------------------------------------- create_tracking_branches on all names
MaxNameLen == 3       \* tokens of a branch name
MaxHeads == 2         \* branches of the remote

\* the subsets of S with at most k elements
RECURSIVE SubsetsUpTo(_, _)
SubsetsUpTo(S, k) ==
    IF k = 0 THEN {{}}
    ELSE LET smaller == SubsetsUpTo(S, k - 1)
         IN  smaller \cup {t \cup {x} : t \in smaller, x \in S}

\* the repositories after a fetch with at most h heads at the remote, named
\* with at most k tokens: every head has its remote-tracking ref, and the
\* local branches are among "a" and "b"
TrackingRepos(k, h) ==
    { [isRepo |-> TRUE, dirty |-> FALSE, staged |-> FALSE, current |-> <<>>,
       local |-> [n \in L |-> 1], remote |-> [n \in R |-> 1], upstream |-> [n \in R |-> 1],
       tracked |-> L \cap R, parent |-> InitParent] :
      L \in SUBSET SampleNames,
      R \in SubsetsUpTo(AllNames(k), h) }

InitTracking ==
    /\ args = [force |-> TRUE, no_lfs |-> TRUE]
    /\ repo \in TrackingRepos(MaxNameLen, MaxHeads)
    /\ repo0 = repo
    /\ pc = "pull_tracking"
    /\ exitCode = -1
    /\ log = <<>>
    /\ should_continue_push = FALSE
    /\ loop = NoLoop
    /\ pb = NoPb
    /\ txt = NoTxt
    /\ force_input = NoAnswer
    /\ pull = [NoPull EXCEPT !.fetch_ok = TRUE]
    /\ pty = NoPty

NextTracking == CreateTrackingBranches(YesNoAnswers)

SpecTracking == InitTracking /\ [][NextTracking]_vars

\* ============================================== run_command_with_progress
\* The parent (the script) and the child (the command) run concurrently: the
\* child writes to the slave side of the PTY and exits, the parent polls the
\* child, selects on the master side and reads.  pty.buf is what the child
\* wrote and the parent has not read, pty.wrote all the child wrote.
MaxPtyOut == 3        \* tokens the child writes
ReadSize == 2         \* tokens one os.read returns at most (1024 bytes)

PtyOutputs == SeqsUpTo({"p", Signature}, MaxPtyOut)

InitPty ==
    /\ args = [default |-> FALSE, current |-> FALSE, force |-> FALSE, tags |-> FALSE]
    /\ repo = NoRepo
    /\ repo0 = repo
    /\ pc = "run_command_with_progress"
    /\ exitCode = -1
    /\ log = <<>>
    /\ should_continue_push = FALSE
    /\ loop = NoLoop
    /\ pb = NoPb
    /\ txt = NoTxt
    /\ force_input = NoAnswer
    /\ pull = NoPull
    /\ \E out \in PtyOutputs : pty = [NoPty EXCEPT !.pc = "openpty", !.todo = out]

OtherVars == <<args, repo, repo0, pc, exitCode, log, should_continue_push, loop, pb, txt,
               force_input, pull>>

\* line 87: pty.openpty(), before the try
PtyOpen ==
    /\ pty.pc = "openpty"
    /\ \E ok \in BOOLEAN :
         pty' = IF ok THEN [pty EXCEPT !.pc = "popen", !.opened = TRUE, !.slave_fd = 1]
                ELSE [pty EXCEPT !.pc = "raised", !.raised = TRUE]
    /\ UNCHANGED OtherVars

\* lines 91-98: subprocess.Popen; on failure the exception goes to finally
PtyPopen ==
    /\ pty.pc = "popen"
    /\ \E ok \in BOOLEAN :
         pty' = IF ok THEN [pty EXCEPT !.pc = "close_slave", !.child = "running"]
                ELSE [pty EXCEPT !.pc = "finally", !.raised = TRUE]
    /\ UNCHANGED OtherVars

\* PtyCloseSlave without the mark that the slave side is closed
PtyCloseSlave_NoMark ==
    /\ pty.pc = "close_slave"
    /\ pty' = [pty EXCEPT !.pc = "poll", !.slave_closes = @ + 1]
    /\ UNCHANGED OtherVars

\* lines 101-104: the parent closes its slave side and marks it closed
PtyCloseSlave ==
    /\ pty.pc = "close_slave"
    /\ pty' = [pty EXCEPT !.pc = "poll", !.slave_closes = @ + 1, !.slave_fd = -1]
    /\ UNCHANGED OtherVars

\* line 106: while process.poll() is None
PtyPoll ==
    /\ pty.pc = "poll"
    /\ pty' = [pty EXCEPT !.pc = IF pty.child = "running" THEN "select" ELSE "wait"]
    /\ UNCHANGED OtherVars

\* lines 108-109: select on the master side; it is readable when there is
\* unread output or when the slave side has been hung up
PtySelect ==
    /\ pty.pc = "select"
    /\ LET r == pty.buf # <<>> \/ pty.child = "exited"
       IN  pty' = [pty EXCEPT !.r = r, !.pc = IF r THEN "read" ELSE "poll"]
    /\ UNCHANGED OtherVars

\* lines 110-123: os.read, the break on OSError or EOF, the copy to stdout
\* and the append
PtyRead ==
    /\ pty.pc = "read"
    /\ IF pty.buf # <<>>
         THEN LET n == IF Len(pty.buf) < ReadSize THEN Len(pty.buf) ELSE ReadSize
                  data == SubSeq(pty.buf, 1, n)
              IN  pty' = [pty EXCEPT !.buf = SubSeq(pty.buf, n + 1, Len(pty.buf)),
                                     !.output_bytes = @ \o data,
                                     !.pc = "poll"]
         ELSE pty' = [pty EXCEPT !.pc = "wait"]
    /\ UNCHANGED OtherVars

\* lines 126-138: process.wait() returns once the child has exited; the
\* result carries the bytes collected
PtyWait ==
    /\ pty.pc = "wait"
    /\ pty.child = "exited"
    /\ pty' = [pty EXCEPT !.pc = "finally", !.stdout = pty.output_bytes]
    /\ UNCHANGED OtherVars

\* an exception raised inside the loop or in process.wait() (a failed write to
\* stdout, a keyboard interrupt)
PtyException ==
    /\ pty.pc \in {"poll", "select", "read", "wait"}
    /\ pty' = [pty EXCEPT !.pc = "finally", !.raised = TRUE]
    /\ UNCHANGED OtherVars

\* lines 140-144: the finally block
PtyFinally ==
    /\ pty.pc = "finally"
    /\ pty' = [pty EXCEPT !.slave_closes = IF pty.slave_fd # -1 THEN @ + 1 ELSE @,
                          !.master_closes = @ + 1,
                          !.pc = IF pty.raised THEN "raised" ELSE "returned"]
    /\ UNCHANGED OtherVars

\* the child writes its next piece of output to the terminal
ChildWrite ==
    /\ pty.child = "running"
    /\ pty.todo # <<>>
    /\ pty' = [pty EXCEPT !.todo = Tail(@),
                          !.buf = Append(@, Head(pty.todo)),
                          !.wrote = Append(@, Head(pty.todo))]
    /\ UNCHANGED OtherVars

\* the child exits after its last write
ChildExit ==
    /\ pty.child = "running"
    /\ pty.todo = <<>>
    /\ pty' = [pty EXCEPT !.child = "exited"]
    /\ UNCHANGED OtherVars

NextPty ==
    \/ PtyOpen
    \/ PtyPopen
    \/ PtyCloseSlave
    \/ PtyPoll
    \/ PtySelect
    \/ PtyRead
    \/ PtyWait
    \/ PtyException
    \/ PtyFinally
    \/ ChildWrite
    \/ ChildExit

SpecPty == InitPty /\ [][NextPty]_vars

\* ------------------------------------------------------------------ claims
Issued(cmds) == \E i \in 1..Len(log) : log[i].cmd \in cmds

\* the commands issued since push_branch was entered
SinceCall == SubSeq(log, pb.callStart + 1, Len(log))
CountSinceCall(cmds) == Cardinality({i \in 1..Len(SinceCall) : SinceCall[i].cmd \in cmds})

PushCmds == {"push", "push_u", "push_force", "push_tags"}
CommitCmds == {"commit", "commit_F"}
LfsCleanupCmds == {"lfs_untrack", "add_gitattributes"}
ModifyingCmds == LfsCleanupCmds \cup CommitCmds \cup PushCmds \cup
                 {"add_all", "reset_soft", "lfs_install", "lfs_track", "add_large"}
HlfePcs == {"hlfe_consent", "hlfe_identify", "hlfe_manual", "hlfe_rewrite",
            "hlfe_recommit", "hlfe_retry"}

\* C1 as stated: a run that finds the tree dirty and has no -d never commits,
\* never pushes and exits nonzero, whatever the other flags and answers.
C1_AsStated ==
    (repo0.isRepo /\ repo0.dirty /\ ~args.default) =>
        /\ ~Issued(CommitCmds)
        /\ ~Issued(PushCmds)
        /\ (pc = "exited" => exitCode # 0)

\* C1 amended: a run that finds the tree dirty, has none of -d, -f, -t and
\* does not resume an interrupted push never commits, never pushes, and exits
\* with a nonzero code.
C1_DirtyAborts ==
    (repo0.isRepo /\ repo0.dirty /\ ~args.default /\ ~args.force /\ ~args.tags
       /\ ~should_continue_push) =>
        /\ ~Issued(CommitCmds)
        /\ ~Issued(PushCmds)
        /\ pc \notin {"dispatch", "push_all_loop", "push_branch", "main_done"} \cup HlfePcs
        /\ (pc = "exited" => exitCode # 0)

\* the dirty-tree gate has aborted a run without -d
C1_Witness ==
    /\ pc = "exited" /\ exitCode = 1
    /\ repo0.dirty /\ ~args.default /\ ~args.force /\ ~args.tags /\ args.current
    /\ ~should_continue_push
    /\ Issued({"status"})

CheckedInterrupted == pc \notin {"check_git_repo", "check_lfs_files_status", "check_interrupted_push"}

\* C2: once check_interrupted_push has run with a merge, cherry-pick or rebase
\* marker present, the run has exited nonzero and no push was issued.
C2_MarkerIsFatal ==
    (repo0.markers # {} /\ CheckedInterrupted) =>
        /\ pc = "exited"
        /\ exitCode # 0
        /\ ~Issued(PushCmds)

\* C3: a run that ends on a precondition failure (no repository, or a marker
\* present) has exited nonzero and has issued no repository-modifying command.
C3_NoPartialWork ==
    (pc = "exited" /\ (~repo0.isRepo \/ repo0.markers # {})) =>
        /\ exitCode # 0
        /\ ~Issued(ModifyingCmds)

\* the first command after the LFS cleanup, if any
RECURSIVE AfterCleanup(_)
AfterCleanup(l) ==
    IF l # <<>> /\ Head(l).cmd \in LfsCleanupCmds THEN AfterCleanup(Tail(l)) ELSE l

\* C4: without -f/-t, a run that resumes an interrupted push runs no status
\* check and no auto-commit, does not abort, and its first command is the push
\* of the current branch (-c) or of the first target branch; it ends with exit
\* 0 after a push of the current branch (-c) or of every target branch.
C4_ResumeSkipsGate ==
    (should_continue_push /\ ~args.force /\ ~args.tags) =>
        LET rest == AfterCleanup(log)
            targets == get_branches_to_push(repo0)
        IN  /\ repo0.current # 0 /\ UnpushedCommits(repo0, repo0.current) # {}
            /\ ~Issued({"status", "add_all", "commit"})
            /\ rest # <<>> =>
                 IF args.current THEN rest[1] = Cmd("push", repo0.current)
                 ELSE rest[1] = Cmd(IF targets[1].is_new THEN "push_u" ELSE "push",
                                    targets[1].branch)
            /\ pc \in {"push_all_loop", "push_branch"} \cup HlfePcs /\ ~args.current
                 => loop.branches = targets
            /\ pc = "exited" =>
                 /\ exitCode = 0
                 /\ IF args.current THEN rest[1] = Cmd("push", repo0.current)
                    ELSE \A t \in 1..Len(targets) :
                           \E i \in 1..Len(rest) :
                             rest[i].cmd \in {"push", "push_u"} /\ rest[i].branch = targets[t].branch

\* a resumed run on a dirty tree without -d has pushed and ended
C4_Witness ==
    /\ should_continue_push /\ ~args.force /\ ~args.tags /\ ~args.default /\ ~args.current
    /\ repo0.dirty
    /\ pc = "exited" /\ exitCode = 0
    /\ Issued({"push"})

\* C5: the step of handle_large_file_error in which the operator answers "n"
\* to the consent prompt returns failure, issues no command and leaves the
\* repository as it is.
C5_DeclineChangesNothing ==
    [][(pc = "hlfe_consent" /\ pb'.consent = Text(<<"n">>)) =>
         /\ pb'.ret = "False"
         /\ pc' \notin HlfePcs
         /\ repo' = repo
         /\ log' = log]_vars

\* consent was declined with "n"
C5_Witness ==
    /\ pb.consent = Text(<<"n">>)
    /\ pb.ret = "False"
    /\ CountSinceCall(ModifyingCmds) = 1

\* C6: when a step of the recovery failed, push_branch does not return success.
C6_FailedStepFails ==
    (pb.failed # {} /\ pb.ret # "none") => pb.ret = "False"

\* C7: one call of push_branch issues at most two pushes, one soft reset and
\* one recommit, and a rejected retry ends the call with failure.
C7_OneRetry ==
    /\ CountSinceCall(PushCmds) <= 2
    /\ CountSinceCall({"reset_soft"}) <= 1
    /\ CountSinceCall({"commit_F"}) <= 1
    /\ pb.retry_rc > 0 =>
         /\ pb.ret = "False"
         /\ pc \notin {"push_branch"} \cup HlfePcs
         /\ CountSinceCall(PushCmds) = 2

\* the retry was rejected for size again
C7_Witness ==
    /\ pb.retry_rc > 0
    /\ \E i \in 1..Len(pb.retry_stderr) : pb.retry_stderr[i] = Signature
    /\ pb.ret = "False"
    /\ CountSinceCall(PushCmds) = 2

\* C8: the message written for the recommit is the message of the commit
\* followed by the marker.
C8_MessagePreserved ==
    txt.removed => txt.written = txt.head \o LfsMarker

\* C9: the path tracked with LFS is not empty and is either the path a match
\* of the pattern gives, confirmed by the operator, or the path the operator
\* typed; after the identify step the recovery is at the manual prompt, at the
\* rewrite with such a path, or has returned.
C9_PathIsIdentified ==
    /\ \A i \in 1..Len(SinceCall) :
         SinceCall[i].cmd = "lfs_track" => SinceCall[i].path = pb.large_file
    /\ pc \in {"hlfe_rewrite", "hlfe_recommit", "hlfe_retry"} \/ CountSinceCall({"lfs_track"}) > 0 =>
         /\ pb.large_file # <<>>
         /\ \/ /\ pb.source = "regex"
               /\ \E i, j \in 1..Len(pb.push_error) :
                    /\ MatchAt(pb.push_error, i, j)
                    /\ pb.large_file = Strip(SubSeq(pb.push_error, i + 1, j - 1))
               /\ pb.confirm.kind = "text"
               /\ pb.confirm.text # <<"n">>
               /\ pb.manual = NoAnswer
            \/ /\ pb.source = "manual"
               /\ pb.manual.kind = "text"
               /\ pb.large_file = Strip(pb.manual.text)
               /\ pb.matched =>
                    \/ pb.confirm.kind = "text" /\ Strip(Lower(pb.confirm.text)) = <<"n">>
                    \/ Strip(pb.group) = <<>>

\* the extracted path was rejected and a typed path is tracked
C9_Witness ==
    /\ pc = "hlfe_retry"
    /\ pb.matched /\ pb.confirm = Text(<<"n">>)
    /\ pb.source = "manual" /\ pb.manual = Text(<<" ", "p">>) /\ pb.large_file = <<"p">>
    /\ CountSinceCall({"lfs_track"}) = 1

\* upstream is a strict ancestor of the tip of b
Ahead(r, b) == r.upstream[b] # r.local[b] /\ r.upstream[b] \in Ancestors(r.parent, r.local[b])

\* neither tip is an ancestor of the other
Diverged(r, b) ==
    /\ r.upstream[b] \notin Ancestors(r.parent, r.local[b])
    /\ r.local[b] \notin Ancestors(r.parent, r.upstream[b])

\* C10: the branches push_all_branches is about to push are the branches with
\* no upstream, marked new, and the branches ahead of or diverged from their
\* upstream.
C10_TargetsAreAheadOrNew ==
    (pc = "push_all_loop" /\ loop.i = 1) =>
        {loop.branches[i] : i \in 1..Len(loop.branches)} =
            {Target(b, TRUE) : b \in {x \in Branches : ~HasUpstream(repo, x)}} \cup
            {Target(b, FALSE) : b \in {x \in Branches : HasUpstream(repo, x) /\
                                                        (Ahead(repo, x) \/ Diverged(repo, x))}}

\* C11: when push_branch reports success for a branch that had no upstream,
\* the push that succeeded was the upstream-establishing one (git push -u) and
\* the branch now has an upstream.
C11_NewBranchGetsUpstream ==
    (pb.ret = "True" /\ pb.branch # 0 /\ ~HasUpstream(repo0, pb.branch)) =>
        /\ SinceCall # <<>>
        /\ SinceCall[Len(SinceCall)] = Cmd("push_u", pb.branch)
        /\ HasUpstream(repo, pb.branch)

\* the first pushes of the calls of push_branch, in the order issued (the
\* retry of a push is the push that follows git commit -F)
RECURSIVE AttemptsIn(_, _)
AttemptsIn(l, k) ==
    IF k > Len(l) THEN <<>>
    ELSE (IF l[k].cmd \in {"push", "push_u"} /\ (k = 1 \/ l[k - 1].cmd # "commit_F")
            THEN <<Target(l[k].branch, l[k].cmd = "push_u")>>
            ELSE <<>>) \o AttemptsIn(l, k + 1)

\* C12: in push_all_branches the first pushes issued are those of the target
\* list, one per target and in list order, whatever the earlier calls
\* returned; every target whose call returned is counted once, as a success
\* or in the failed list, and at the end all targets are counted.  A call the
\* operator interrupted during the recommit has pushed and has not returned.
C12_EachTargetOnce ==
    (~args.current /\ loop.i >= 1) =>
        /\ loop.i <= Len(loop.branches) + 1
        /\ AttemptsIn(log, 1) =
             SubSeq(loop.branches, 1, IF pc \in HlfePcs \cup {"traceback"} THEN loop.i
                                      ELSE loop.i - 1)
        /\ loop.success_count + Len(loop.failed_branches) = loop.i - 1
        /\ \A x, y \in 1..Len(loop.failed_branches) :
             x < y => \E m, n \in 1..(loop.i - 1) :
                        /\ m < n
                        /\ loop.branches[m].branch = loop.failed_branches[x]
                        /\ loop.branches[n].branch = loop.failed_branches[y]
        /\ pc \in {"main_done", "exited"} =>
             loop.success_count + Len(loop.failed_branches) = Len(loop.branches)

\* the first of two targets failed after a recovery, the second was pushed
C12_Witness ==
    /\ pc = "exited" /\ ~args.current
    /\ Len(loop.branches) = 2
    /\ loop.failed_branches = <<loop.branches[1].branch>>
    /\ loop.success_count = 1
    /\ Issued({"commit_F"})

GateCmds == {"status", "add_all", "commit", "push", "push_u"}

\* the run got past the precondition checks
PassedChecks == repo0.isRepo /\ (repo0.markers = {} \/ should_continue_push)

\* C13: in a -f run the force-with-lease push of the current branch is issued
\* exactly when the answer, lowercased, is "yes"; a -f run, and a -t run that
\* passed the precondition checks, ends with exit code 0 right after that
\* action, with no status check, no auto-commit and no ordinary push.
C13_ForceShortCircuits ==
    /\ (args.force /\ force_input # NoAnswer) =>
          /\ Issued({"push_force"}) <=>
                (force_input.kind = "text" /\ Lower(force_input.text) = <<"y", "e", "s">>)
          /\ \A i \in 1..Len(log) :
                log[i].cmd = "push_force" => log[i].branch = repo0.current /\ i = Len(log)
    /\ (args.force /\ PassedChecks /\ pc \in {"exited", "traceback"}) =>
          /\ force_input # NoAnswer
          /\ exitCode = 0
          /\ ~Issued(GateCmds \cup {"push_tags"})
    /\ (args.tags /\ ~args.force /\ PassedChecks /\ pc \in {"exited", "traceback"}) =>
          /\ exitCode = 0
          /\ log # <<>> /\ log[Len(log)] = Cmd("push_tags", 0)
          /\ ~Issued(GateCmds \cup {"push_force"})

\* C14: no run ends with an exception that escaped main; a keyboard interrupt
\* ends the run with a nonzero exit code through an exit the script makes.
C14_InterruptCaught ==
    /\ pc # "traceback"
    /\ (force_input = INT /\ pc = "exited") => exitCode # 0

\* ------------------------------------------------------------ claims, mypull
SyncPcs == {"pull_sync_loop", "pull_cleanup", "pull_summary", "exited"}

\* the loop of sync_all_branches is past branch b
Processed(b) == \E k \in 1..(pull.i - 1) : pull.branches[k] = b

\* b has a configured upstream whose ref exists, and its tip was not the
\* upstream tip when sync_all_branches began
Behind0(b) ==
    /\ b \in DOMAIN pull.local0
    /\ b \in repo.tracked
    /\ b \in DOMAIN repo.upstream
    /\ pull.local0[b] # repo.upstream[b]

\* C15: git update-ref is issued only for a branch that is not the current
\* one and whose tip differed from and was an ancestor of its upstream tip,
\* and a ref that moved is at the upstream commit; every processed tracked
\* branch whose tip differed from its upstream and was not fast-forwarded is
\* in failed_branches with its ref unchanged.
C15_OnlySafeFastForward ==
    (pull.i >= 1 /\ pc \in SyncPcs) =>
        /\ \A k \in 1..Len(log) :
             log[k].cmd = "update_ref" =>
               LET b == log[k].branch
               IN  /\ b # pull.current_branch
                   /\ Behind0(b)
                   /\ pull.local0[b] \in Ancestors(repo.parent, repo.upstream[b])
                   /\ repo.local[b] \in {pull.local0[b], repo.upstream[b]}
        /\ \A b \in DOMAIN pull.local0 :
             (b # pull.current_branch /\ repo.local[b] # pull.local0[b]) =>
               /\ Issued({"update_ref"})
               /\ repo.local[b] = repo.upstream[b]
        /\ \A b \in DOMAIN pull.local0 :
             (Processed(b) /\ Behind0(b) /\ repo.local[b] # repo.upstream[b]) =>
               /\ InSeq(b, pull.failed_branches)
               /\ repo.local[b] = pull.local0[b]

\* C16: when git ls-remote succeeded, the list create_tracking_branches
\* offers holds exactly the names of the remote that are not local branches,
\* in increasing order without repetition; git branch --track is issued only
\* for offered names and only when the answer is not "n".
C16_OfferedIsRemoteMinusLocal ==
    (pc = "pull_tags" /\ pull.ls_remote_ok) =>
        LET offered == pull.new_branches
        IN  /\ {offered[i] : i \in 1..Len(offered)} = DOMAIN repo0.remote \ DOMAIN repo0.local
            /\ \A i, j \in 1..Len(offered) : i < j => NameLess(offered[i], offered[j])
            /\ \A k \in 1..Len(log) : log[k].cmd = "branch_track" => InSeq(log[k].branch, offered)
            /\ Issued({"branch_track"}) =>
                 ~(pull.create_choice.kind = "text" /\
                   Strip(Lower(pull.create_choice.text)) = <<"n">>)

\* the commands that mark the five steps after the fetch, in their order
StepMarkers == <<"ls_remote", "fetch_tags", "show_current", "prune_dry_run", "summary">>

RECURSIVE StepsIn(_)
StepsIn(l) ==
    IF l = <<>> THEN <<>>
    ELSE (IF InSeq(Head(l).cmd, StepMarkers) THEN <<Head(l).cmd>> ELSE <<>>) \o StepsIn(Tail(l))

\* the operator answered the dirty-tree prompt with "y"
Accepted == pull.choice.kind = "text" /\ Strip(Lower(pull.choice.text)) = <<"y">>

C18_GateBlocks ==
    (repo0.isRepo /\ repo0.dirty /\ ~args.force) =>
        /\ pc \notin {"pull_check_git_repo", "pull_check_working_tree", "exited"} => Accepted
        /\ (\E k \in 1..Len(log) : log[k].cmd # "diff_index") => Accepted
        /\ (pull.choice # NoAnswer /\ ~Accepted) =>
              /\ pc = "exited"
              /\ exitCode = 1
              /\ log = <<Cmd("diff_index", 0)>>
              /\ repo = repo0

\* the prompt was interrupted on a dirty tree and the run ended
C18_Witness ==
    /\ repo0.isRepo /\ repo0.dirty /\ ~args.force /\ ~args.no_lfs
    /\ pull.choice = INT
    /\ pc = "exited" /\ exitCode = 1

\* ------------------------------------------- claims, run_command_with_progress
\* C19: the text run_command_with_progress returns is all the child wrote
\* before it exited; when that holds the rejection signature, the text
\* push_branch searches (stderr + stdout) holds it too.
C19_NoOutputLost ==
    pty.pc = "returned" =>
        /\ pty.stdout = pty.wrote
        /\ InSeq(Signature, pty.wrote) => InSeq(Signature, pty.stdout \o pty.stdout)

\* C20: neither side of the PTY is closed twice, neither is closed before it
\* was opened, the parent reads only from an open master side, and when the
\* function has returned or raised after openpty succeeded both sides have
\* been closed once.
C20_FdsClosedOnce ==
    /\ pty.master_closes <= 1
    /\ pty.slave_closes <= 1
    /\ ~pty.opened => (pty.master_closes = 0 /\ pty.slave_closes = 0)
    /\ pty.pc \in {"poll", "select", "read", "wait"} => pty.master_closes = 0
    /\ (pty.pc \in {"returned", "raised"} /\ pty.opened) =>
          (pty.master_closes = 1 /\ pty.slave_closes = 1)

\* an exception in the loop, after output was read, has left the function
C20_Witness ==
    /\ pty.pc = "raised"
    /\ pty.child = "running"
    /\ pty.output_bytes # <<>>
    /\ pty.master_closes = 1 /\ pty.slave_closes = 1

\* ------------------------------------------- claims, large-file recovery
\* C21: once handle_large_file_error has returned or an exception has left
\* it, the message file it created for the recommit no longer exists.
C21_TempFileRemoved ==
    (txt.created /\ (pb.ret # "none" \/ pc = "traceback")) => txt.removed

\* the steps of the recovery that move a ref: the soft reset and the recommit
RewritePcs == {"hlfe_rewrite", "hlfe_recommit"}

\* a step of the recovery acts on the tip of the pushed branch and leaves the
\* other branches where they are
OnPushedBranchOnly ==
    pc \in RewritePcs =>
      /\ HeadCommit(repo) = PushTip(repo, pb.branch)
      /\ \A b \in Branches : b # pb.branch => repo'.local[b] = repo.local[b]

\* C22: the commit the recovery captures, resets and recommits is the tip of
\* the branch whose push failed, and the recovery leaves the ref of every
\* other local branch as it was.
C22_RecoveryActsOnPushedBranch == [][OnPushedBranchOnly]_vars

\* the operator gave consent: the answer is a text other than "n"
ConsentGiven == pb.consent.kind = "text" /\ Strip(Lower(pb.consent.text)) # <<"n">>

\* handle_large_file_error has returned before the rewrite: consent declined,
\* EOF or interrupt at one of the three prompts, or an empty path typed
ReturnedBeforeRewrite ==
    /\ pb.ret = "False"
    /\ pb.push_error # <<>>
    /\ \/ pb.consent # NoAnswer /\ ~ConsentGiven
       \/ pb.confirm.kind \in {"eof", "int"}
       \/ pb.manual.kind \in {"eof", "int"}
       \/ pb.manual.kind = "text" /\ Strip(pb.manual.text) = <<>>

\* C23: when handle_large_file_error has returned before the rewrite, the
\* one command issued since push_branch was entered is the rejected push and
\* the repository is as the call found it; and a soft reset has been issued
\* only with consent given and a path that is not empty.
C23_NoMutationBeforeRewrite ==
    /\ ReturnedBeforeRewrite =>
         /\ Len(SinceCall) = 1 /\ SinceCall[1].cmd \in PushCmds
         /\ [repo EXCEPT !.oversized = repo0.oversized] = repo0
    /\ CountSinceCall({"reset_soft"}) > 0 => ConsentGiven /\ pb.large_file # <<>>

\* consent was given, the extracted path refused and a blank path typed
C23_Witness ==
    /\ ReturnedBeforeRewrite
    /\ pb.consent = Text(<<>>)
    /\ pb.confirm = Text(<<"n">>)
    /\ pb.manual = Text(<<" ">>)
    /\ pc = "returned"

\* ---------------------------------------------- claims, sync_all_branches
\* the commands of sync_all_branches that name branch b
SyncCmdsOn(b) ==
    {k \in 1..Len(log) : log[k].cmd \in {"pull_ff_only", "merge_base", "update_ref"}
                          /\ log[k].branch = b}

\* how many times b is in the list l
Times(b, l) == Cardinality({k \in 1..Len(l) : l[k] = b})

\* b had nothing to sync when sync_all_branches began: no upstream is
\* configured, the upstream ref does not exist, or the tip is the upstream tip
NothingToSync0(b) ==
    \/ b \notin repo.tracked
    \/ b \notin DOMAIN repo.upstream
    \/ pull.local0[b] = repo.upstream[b]

\* C24: git update-ref is never issued for the checked-out branch, whose ref
\* moves only with git pull --ff-only; a branch with nothing to sync has no
\* command issued for it, keeps its ref and is in neither list; and every
\* branch is at most once in updated_branches and failed_branches together.
C24_SyncTouchesOnlyStale ==
    (pull.i >= 1 /\ pc \in SyncPcs) =>
        /\ \A k \in 1..Len(log) :
             log[k].cmd = "update_ref" => log[k].branch # pull.current_branch
        /\ \A b \in DOMAIN pull.local0 :
             /\ (b = pull.current_branch /\ repo.local[b] # pull.local0[b]) =>
                  \E k \in SyncCmdsOn(b) : log[k].cmd = "pull_ff_only"
             /\ NothingToSync0(b) =>
                  /\ SyncCmdsOn(b) = {}
                  /\ repo.local[b] = pull.local0[b]
                  /\ Times(b, pull.updated_branches) + Times(b, pull.failed_branches) = 0
             /\ Times(b, pull.updated_branches) + Times(b, pull.failed_branches) <= 1

\* the checked-out branch was fast-forwarded by the pull, and the other
\* branch, whose tip is its upstream tip, was passed over
C24_Witness ==
    /\ pc = "pull_cleanup"
    /\ pull.current_branch = <<"a">>
    /\ DOMAIN pull.local0 = SampleNames
    /\ repo.local[<<"a">>] # pull.local0[<<"a">>]
    /\ pull.updated_branches = <<(<<"a">>)>>
    /\ <<"b">> \in repo.tracked /\ <<"b">> \in DOMAIN repo.upstream
    /\ pull.local0[<<"b">>] = repo.upstream[<<"b">>]
    /\ pull.failed_branches = <<>>
====
